---- MODULE Spec2Model ----
(***************************************************************************)
(* Model of the analytical core of laddu.py: the temporal slope estimator  *)
(* (calculate_slope), the feature composition, the per-plot rolling-median *)
(* smoothing and the ordered rule pass of add_four_stage_classification.   *)
(*                                                                         *)
(* Numbers.  A float is modelled as an exact extended rational <<n, d>>:   *)
(*   d > 0  : the finite value n/d in lowest terms,                        *)
(*   <<1,0>>, <<-1,0>> : +infinity and -infinity,   <<0,0>> : NaN.         *)
(* Arithmetic and comparisons follow IEEE-754 for the special values       *)
(* (inf - inf = NaN, every comparison with NaN is false); rounding of      *)
(* finite values is not modelled.                                          *)
(***************************************************************************)
EXTENDS Integers, Sequences, FiniteSets, TLC

VARIABLES pc, df, out, stage, code, P, printed, summary4

vars == <<pc, df, out, stage, code, P, printed, summary4>>

----------------------------------------------------------------------------
(* Extended rational arithmetic *)

Abs(x) == IF x < 0 THEN -x ELSE x

Sign(x) == IF x < 0 THEN -1 ELSE IF x > 0 THEN 1 ELSE 0

RECURSIVE GCD(_, _)
GCD(a, b) == IF b = 0 THEN a ELSE GCD(b, a % b)

LCM(a, b) == (a \div GCD(a, b)) * b

Norm(n, d) == LET g == GCD(Abs(n), d) IN <<n \div g, d \div g>>

Q(n, d) == Norm(n, d)

NaN == <<0, 0>>

PosInf == <<1, 0>>

NegInf == <<-1, 0>>

Zero == <<0, 1>>

IsNaN(a) == a = NaN

IsInf(a) == a[2] = 0 /\ a[1] # 0

IsFinite(a) == a[2] > 0

FNeg(a) == <<-a[1], a[2]>>

FAbs(a) == <<Abs(a[1]), a[2]>>

FAdd(a, b) ==
    IF IsNaN(a) \/ IsNaN(b) THEN NaN
    ELSE IF IsInf(a) THEN (IF IsInf(b) /\ b # a THEN NaN ELSE a)
    ELSE IF IsInf(b) THEN b
    ELSE LET l == LCM(a[2], b[2])
         IN  Norm(a[1] * (l \div a[2]) + b[1] * (l \div b[2]), l)

FSub(a, b) == FAdd(a, FNeg(b))

FMul(a, b) ==
    IF IsNaN(a) \/ IsNaN(b) THEN NaN
    ELSE IF IsInf(a) \/ IsInf(b)
         THEN (IF a[1] = 0 \/ b[1] = 0 THEN NaN
               ELSE <<Sign(a[1]) * Sign(b[1]), 0>>)
    ELSE Norm(a[1] * b[1], a[2] * b[2])

\* a / t for a positive whole number of days t
FDivDays(a, t) == IF IsFinite(a) THEN Norm(a[1], a[2] * t) ELSE a

\* position of a value on the extended line when an infinity is involved
Ext(a) == IF IsFinite(a) THEN 0 ELSE a[1]

FLt(a, b) ==
    /\ ~IsNaN(a)
    /\ ~IsNaN(b)
    /\ IF IsFinite(a) /\ IsFinite(b) THEN a[1] * b[2] < b[1] * a[2]
       ELSE Ext(a) < Ext(b)

FLe(a, b) ==
    /\ ~IsNaN(a)
    /\ ~IsNaN(b)
    /\ IF IsFinite(a) /\ IsFinite(b) THEN a[1] * b[2] <= b[1] * a[2]
       ELSE Ext(a) <= Ext(b)

FGe(a, b) == FLe(b, a)

FGt(a, b) == FLt(b, a)

----------------------------------------------------------------------------
(* numpy helpers *)

HasNaN(s) == \E i \in 1..Len(s) : IsNaN(s[i])

RECURSIVE Insert(_, _)
Insert(x, s) ==
    IF s = <<>> THEN <<x>>
    ELSE IF FLe(x, Head(s)) THEN <<x>> \o s
    ELSE <<Head(s)>> \o Insert(x, Tail(s))

RECURSIVE SortF(_)
SortF(s) == IF s = <<>> THEN <<>> ELSE Insert(Head(s), SortF(Tail(s)))

RECURSIVE SumF(_)
SumF(s) == IF s = <<>> THEN Zero ELSE FAdd(Head(s), SumF(Tail(s)))

\* variant: the mean of the list in place of its median
np_mean(s) == FDivDays(SumF(s), Len(s))

\* np.median of a non-empty list: NaN if any element is NaN, else the middle
\* element of the sorted list, or the mean of the two middle elements.
np_median(s) ==
    IF HasNaN(s) THEN NaN
    ELSE LET t == SortF(s)
             n == Len(t)
         IN  IF n % 2 = 1 THEN t[(n + 1) \div 2]
             ELSE FMul(Q(1, 2), FAdd(t[n \div 2], t[n \div 2 + 1]))

----------------------------------------------------------------------------
(* calculate_slope *)

window_days == 16

\* a function on 1..n written out as a list, element by element
list(f) == <<>> \o f

\* the index positions 1..n as a sequence
Range(n) == list([i \in 1..n |-> i])

\* the loop "for j in range(n): for k in range(j+1, n)" as a list of <<j, k>>
RECURSIVE PairsFrom(_, _, _)
PairsFrom(j, k, n) ==
    IF j > n THEN <<>>
    ELSE IF k > n THEN PairsFrom(j + 1, j + 2, n)
    ELSE <<<<j, k>>>> \o PairsFrom(j, k + 1, n)

\* variant: the whole window_days on either side
within_window_full(dates, i) ==
    [j \in 1..Len(dates) |-> Abs(dates[j] - dates[i]) <= window_days]

\* variant: the boundary day is left out
within_window_strict(dates, i) ==
    [j \in 1..Len(dates) |-> 2 * Abs(dates[j] - dates[i]) < window_days]

\* time_diffs_days <= half_window, half_window = window_days / 2
within_window(dates, i) ==
    [j \in 1..Len(dates) |-> 2 * Abs(dates[j] - dates[i]) <= window_days]

\* variant: the later value itself is divided, not the difference
pairwise_slopes_no_diff(window_dates, window_values) ==
    LET IsLater(p) == window_dates[p[2]] - window_dates[p[1]] > 0
        ps == SelectSeq(PairsFrom(1, 2, Len(window_dates)), IsLater)
    IN  list([x \in 1..Len(ps) |->
            FDivDays(window_values[ps[x][2]],
                     window_dates[ps[x][2]] - window_dates[ps[x][1]])])

\* variant: every pair j < k is divided, also when the dates are equal
\* (x / 0.0 in floating point is an infinity, or NaN for 0.0 / 0.0)
pairwise_slopes_any_diff(window_dates, window_values) ==
    LET ps == PairsFrom(1, 2, Len(window_dates))
        Quot(v, t) ==
            IF t # 0 \/ ~IsFinite(v) THEN FDivDays(v, t)
            ELSE IF v = Zero THEN NaN
            ELSE IF FGt(v, Zero) THEN PosInf
            ELSE NegInf
    IN  list([x \in 1..Len(ps) |->
            Quot(FSub(window_values[ps[x][2]], window_values[ps[x][1]]),
                 window_dates[ps[x][2]] - window_dates[ps[x][1]])])

\* variant: the size of the value difference is divided, its sign dropped
pairwise_slopes_abs_diff(window_dates, window_values) ==
    LET IsLater(p) == window_dates[p[2]] - window_dates[p[1]] > 0
        ps == SelectSeq(PairsFrom(1, 2, Len(window_dates)), IsLater)
        Size(x) == IF FLt(x, Zero) THEN FSub(Zero, x) ELSE x
    IN  list([x \in 1..Len(ps) |->
            FDivDays(Size(FSub(window_values[ps[x][2]], window_values[ps[x][1]])),
                     window_dates[ps[x][2]] - window_dates[ps[x][1]])])

pairwise_slopes(window_dates, window_values) ==
    LET IsLater(p) == window_dates[p[2]] - window_dates[p[1]] > 0
        ps == SelectSeq(PairsFrom(1, 2, Len(window_dates)), IsLater)
    IN  list([x \in 1..Len(ps) |->
            FDivDays(FSub(window_values[ps[x][2]], window_values[ps[x][1]]),
                     window_dates[ps[x][2]] - window_dates[ps[x][1]])])

\* one iteration of the loop over i: the value appended to slopes
slope_at(dates, values, i) ==
    LET mask == within_window(dates, i)
        InWin(j) == mask[j]
        idx == SelectSeq(Range(Len(dates)), InWin)
    IN  IF Len(idx) < 2 THEN Zero
        ELSE LET window_dates == list([x \in 1..Len(idx) |-> dates[idx[x]]])
                 window_values == list([x \in 1..Len(idx) |-> values[idx[x]]])
                 ps == pairwise_slopes(window_dates, window_values)
             IN  IF ps # <<>> THEN np_median(ps) ELSE Zero

\* the list "slopes" when the loop ends
slopes_list(group, column_name) ==
    LET dates == list([i \in 1..Len(group) |-> group[i].date])
        values == list([i \in 1..Len(group) |-> group[i][column_name]])
    IN  list([i \in 1..Len(group) |-> slope_at(dates, values, i)])

\* variant: only +infinity is replaced
fill_replace_pos_only(s) ==
    list([i \in 1..Len(s) |-> IF s[i] = PosInf THEN Zero ELSE s[i]])

\* .fillna(0).replace([np.inf, -np.inf], 0)
fill_replace(s) ==
    list([i \in 1..Len(s) |->
        IF IsNaN(s[i]) THEN Zero
        ELSE IF s[i] = PosInf \/ s[i] = NegInf THEN Zero
        ELSE s[i]])

calculate_slope(group, column_name) ==
    fill_replace(slopes_list(group, column_name))

----------------------------------------------------------------------------
(* pandas groupby helpers *)

\* positions of the rows of plot p, in frame order
GroupIdx(frame, p) ==
    LET InPlot(i) == frame[i].plot_id = p
    IN  SelectSeq(Range(Len(frame)), InPlot)

Group(frame, p) ==
    LET idx == GroupIdx(frame, p)
    IN  list([x \in 1..Len(idx) |-> frame[idx[x]]])

PosIn(s, v) == CHOOSE x \in 1..Len(s) : s[x] = v

\* the group keys of groupby("plot_id"), ascending
PlotIds(frame) == {frame[i].plot_id : i \in 1..Len(frame)}

RECURSIVE SortedIds(_)
SortedIds(S) ==
    IF S = {} THEN <<>>
    ELSE LET m == CHOOSE x \in S : \A y \in S : x <= y
         IN  <<m>> \o SortedIds(S \ {m})

\* df[col + "_slope"] = grouped.apply(lambda g: calculate_slope(g, col)):
\* the per-group results are aligned with the rows by index
slope_column(frame, column_name) ==
    LET ids == SortedIds(PlotIds(frame))
        per_group == list([x \in 1..Len(ids) |->
                        calculate_slope(Group(frame, ids[x]), column_name)])
    IN  list([i \in 1..Len(frame) |->
            per_group[PosIn(ids, frame[i].plot_id)]
                [PosIn(GroupIdx(frame, frame[i].plot_id), i)]])

WithColumn(frame, name, column) ==
    list([i \in 1..Len(frame) |-> (name :> column[i]) @@ frame[i]])

----------------------------------------------------------------------------
(* main: the three slope statements *)

SlopeNDVI ==
    /\ pc = "slope_NDVI"
    /\ df' = WithColumn(df, "NDVI_slope", slope_column(df, "NDVI"))
    /\ pc' = "slope_SAVI"
    /\ UNCHANGED <<out, stage, code, P, printed, summary4>>

SlopeSAVI ==
    /\ pc = "slope_SAVI"
    /\ df' = WithColumn(df, "SAVI_slope", slope_column(df, "SAVI"))
    /\ pc' = "slope_NDWI"
    /\ UNCHANGED <<out, stage, code, P, printed, summary4>>

\* variant: the NDWI statement is passed over
SlopeNDWI_skipped ==
    /\ pc = "slope_NDWI"
    /\ pc' = "features"
    /\ UNCHANGED <<df, out, stage, code, P, printed, summary4>>

SlopeNDWI ==
    /\ pc = "slope_NDWI"
    /\ df' = WithColumn(df, "NDWI_slope", slope_column(df, "NDWI"))
    /\ pc' = "features"
    /\ UNCHANGED <<out, stage, code, P, printed, summary4>>

----------------------------------------------------------------------------
(* add_four_stage_classification: parameters *)

DefaultParams ==
    [G_seed_max  |-> Q(30, 100),
     G_till_max  |-> Q(50, 100),
     G_high      |-> Q(50, 100),
     rise_strong |-> Q(68, 10000),
     rise_weak   |-> Q(10, 10000),
     flat_abs    |-> Q(10, 10000),
     fall_weak   |-> Q(-10, 10000),
     fall_strong |-> Q(-135, 10000),
     W_water     |-> Q(45, 100),
     roll_window |-> 3]

\* the literal 0.35 of the plateau and water rules
G_plateau == Q(35, 100)

----------------------------------------------------------------------------
(* add_four_stage_classification: features and smoothing *)

\* variant: the combined greenness is also written over the NDVI column
features_in_place(frame) ==
    [i \in 1..Len(frame) |->
        [G  |-> FAdd(FMul(Q(6, 10), frame[i].NDVI), FMul(Q(4, 10), frame[i].SAVI)),
         W  |-> frame[i].NDWI,
         sG |-> FMul(Q(1, 2), FAdd(frame[i].NDVI_slope, frame[i].SAVI_slope)),
         NDVI |-> FAdd(FMul(Q(6, 10), frame[i].NDVI), FMul(Q(4, 10), frame[i].SAVI))]
        @@ frame[i]]

\* out = df.copy(); out["G"], out["W"], out["sG"]
features(frame) ==
    [i \in 1..Len(frame) |->
        [G  |-> FAdd(FMul(Q(6, 10), frame[i].NDVI), FMul(Q(4, 10), frame[i].SAVI)),
         W  |-> frame[i].NDWI,
         sG |-> FMul(Q(1, 2), FAdd(frame[i].NDVI_slope, frame[i].SAVI_slope))]
        @@ frame[i]]

\* stable insertion of a row into a frame ordered by date
RECURSIVE InsertByDate(_, _)
InsertByDate(r, s) ==
    IF s = <<>> THEN <<r>>
    ELSE IF r.date < Head(s).date THEN <<r>> \o s
    ELSE <<Head(s)>> \o InsertByDate(r, Tail(s))

\* g.sort_values("date")
RECURSIVE sort_by_date(_)
sort_by_date(g) ==
    IF g = <<>> THEN <<>>
    ELSE InsertByDate(g[Len(g)], sort_by_date(SubSeq(g, 1, Len(g) - 1)))

\* variant: the window is the w positions ending at i (center=False)
rolling_median_trailing(xs, w, i) ==
    LET hi == i
        lo == hi - w + 1
        Valid(j) == j >= lo /\ j <= hi /\ IsFinite(xs[j])
        idx == SelectSeq(Range(Len(xs)), Valid)
    IN  IF Len(idx) < 1 THEN NaN
        ELSE np_median([x \in 1..Len(idx) |-> xs[idx[x]]])

\* Series.rolling(w, center=True, min_periods=1).median() at position i:
\* the window is the w positions ending at i + (w-1)//2, clipped to the
\* series; infinities are turned into NaN and NaN observations are skipped;
\* with no valid observation the result is NaN.
rolling_median(xs, w, i) ==
    LET hi == i + ((w - 1) \div 2)
        lo == hi - w + 1
        Valid(j) == j >= lo /\ j <= hi /\ IsFinite(xs[j])
        idx == SelectSeq(Range(Len(xs)), Valid)
    IN  IF Len(idx) < 1 THEN NaN
        ELSE np_median([x \in 1..Len(idx) |-> xs[idx[x]]])

\* variant: the rolling median of W is written back into the NDWI column
smooth_in_place(g0) ==
    LET w == P.roll_window
        g == sort_by_date(g0)
        Gs == [i \in 1..Len(g) |-> g[i].G]
        sGs == [i \in 1..Len(g) |-> g[i].sG]
        Ws == [i \in 1..Len(g) |-> g[i].W]
    IN  [i \in 1..Len(g) |->
            [G_sm  |-> rolling_median(Gs, w, i),
             sG_sm |-> rolling_median(sGs, w, i),
             W_sm  |-> rolling_median(Ws, w, i),
             NDWI  |-> rolling_median(Ws, w, i)] @@ g[i]]

smooth(g0) ==
    LET w == P.roll_window
        g == sort_by_date(g0)
        Gs == [i \in 1..Len(g) |-> g[i].G]
        sGs == [i \in 1..Len(g) |-> g[i].sG]
        Ws == [i \in 1..Len(g) |-> g[i].W]
    IN  [i \in 1..Len(g) |->
            [G_sm  |-> rolling_median(Gs, w, i),
             sG_sm |-> rolling_median(sGs, w, i),
             W_sm  |-> rolling_median(Ws, w, i)] @@ g[i]]

RECURSIVE Concat(_)
Concat(ss) == IF ss = <<>> THEN <<>> ELSE Head(ss) \o Concat(Tail(ss))

\* variant: the smoothing runs over the whole frame, not plot by plot
apply_smooth_ungrouped(frame) == smooth(frame)

\* out.groupby("plot_id", group_keys=False).apply(_smooth)
apply_smooth(frame) ==
    LET ids == SortedIds(PlotIds(frame))
    IN  Concat([x \in 1..Len(ids) |-> smooth(Group(frame, ids[x]))])

Features ==
    /\ pc = "features"
    /\ out' = features(df)
    /\ pc' = "smooth"
    /\ UNCHANGED <<df, stage, code, P, printed, summary4>>

Smooth ==
    /\ pc = "smooth"
    /\ out' = apply_smooth(out)
    /\ pc' = "labels"
    /\ UNCHANGED <<df, stage, code, P, printed, summary4>>

----------------------------------------------------------------------------
(* add_four_stage_classification: helper masks, one truth value per row *)

\* variant: the strong-rise threshold itself is left out
rising_str_strict(r) == FGt(r.sG_sm, P.rise_strong)

rising_str(r) == FGe(r.sG_sm, P.rise_strong)

\* variant: the weak rise does not exclude the strong one
rising_weak_overlapping(r) == FGe(r.sG_sm, P.rise_weak)

rising_weak(r) == FGe(r.sG_sm, P.rise_weak) /\ ~rising_str(r)

flatish(r) == FLe(FAbs(r.sG_sm), P.flat_abs)

falling_weak(r) == FLe(r.sG_sm, P.fall_weak) /\ FGt(r.sG_sm, P.fall_strong)

falling_str(r) == FLe(r.sG_sm, P.fall_strong)

\* the mask m of each rule, in source order (the source numbers them
\* 1, 2, 3, 3b, 4, 5, 6; here they are rules 1..7)
\* variant: only a strong fall counts
m_ripening_strong_only(r) == falling_str(r)

m_ripening(r) == falling_weak(r) \/ falling_str(r)

\* variant: Growth leaves a falling row alone
m_growth_keep_falling(r) ==
    /\ FGe(r.G_sm, P.G_high)
    /\ (rising_str(r) \/ rising_weak(r) \/ flatish(r))
    /\ ~m_ripening(r)

\* variant: Growth asks for a rising slope
m_growth_rising_only(r) ==
    /\ FGe(r.G_sm, P.G_high)
    /\ (rising_str(r) \/ rising_weak(r))

\* variant: Growth without its greenness floor
m_growth_no_floor(r) == rising_str(r) \/ rising_weak(r) \/ flatish(r)

m_growth(r) ==
    /\ FGe(r.G_sm, P.G_high)
    /\ (rising_str(r) \/ rising_weak(r) \/ flatish(r))

\* variant: the Tillering band ends at G_till_max
m_tillering_till_max(r) ==
    /\ FGe(r.G_sm, P.G_seed_max)
    /\ FLt(r.G_sm, P.G_till_max)
    /\ (rising_str(r) \/ rising_weak(r))

m_tillering(r) ==
    /\ FGe(r.G_sm, P.G_seed_max)
    /\ FLt(r.G_sm, P.G_high)
    /\ (rising_str(r) \/ rising_weak(r))

\* variant: the plateau rule without its lower greenness bound
m_plateau_any_green(r) ==
    /\ FLt(r.G_sm, P.G_high)
    /\ flatish(r)

m_plateau(r) ==
    /\ FGe(r.G_sm, G_plateau)
    /\ FLt(r.G_sm, P.G_high)
    /\ flatish(r)

m_seedling(r) ==
    /\ FLt(r.G_sm, P.G_seed_max)
    /\ (rising_str(r) \/ rising_weak(r))

\* variant: the water threshold itself is left out
m_water_strict(r) == FGt(r.W_sm, P.W_water) /\ FLt(r.G_sm, G_plateau)

\* variant: a falling row is left to the slope-based rules
m_water_unless_falling(r) ==
    /\ FGe(r.W_sm, P.W_water) /\ FLt(r.G_sm, G_plateau)
    /\ ~(falling_str(r) \/ falling_weak(r))

m_water(r) == FGe(r.W_sm, P.W_water) /\ FLt(r.G_sm, G_plateau)

\* variant: the last mask forgets the label array
m_lowflat_any_label(r, current) ==
    /\ FLt(r.G_sm, P.G_seed_max)
    /\ flatish(r)

\* the last mask also reads the label array as it stands
m_lowflat(r, current) ==
    /\ FLt(r.G_sm, P.G_seed_max)
    /\ flatish(r)
    /\ current = "Growth"

\* the name and the code each rule assigns
RuleStage(k) ==
    CASE k = 1 -> "Ripening"
      [] k = 2 -> "Growth"
      [] k = 3 -> "Tillering"
      [] k = 4 -> "Tillering"
      [] k = 5 -> "Seedling"
      [] k = 6 -> "Seedling"
      [] k = 7 -> "Seedling"

\* variant: the plateau rule carries the code of the rule above it
RuleCodeSlip(k) ==
    CASE k = 1 -> 4
      [] k = 2 -> 3
      [] k = 3 -> 2
      [] k = 4 -> 3
      [] k = 5 -> 1
      [] k = 6 -> 1
      [] k = 7 -> 1

RuleCode(k) ==
    CASE k = 1 -> 4
      [] k = 2 -> 3
      [] k = 3 -> 2
      [] k = 4 -> 2
      [] k = 5 -> 1
      [] k = 6 -> 1
      [] k = 7 -> 1

\* the mask of rule k over a frame whose label array is "current"
rule_mask(k, frame, current) ==
    [i \in 1..Len(frame) |->
        CASE k = 1 -> m_ripening(frame[i])
          [] k = 2 -> m_growth(frame[i])
          [] k = 3 -> m_tillering(frame[i])
          [] k = 4 -> m_plateau(frame[i])
          [] k = 5 -> m_seedling(frame[i])
          [] k = 6 -> m_water(frame[i])
          [] k = 7 -> m_lowflat(frame[i], current[i])]

RuleMask(k) == rule_mask(k, out, stage)

\* arr[m] = v
Assign(arr, m, v) == [i \in 1..Len(arr) |-> IF m[i] THEN v ELSE arr[i]]

\* stage[:] = "Bare"; code[:] = 0
Labels ==
    /\ pc = "labels"
    /\ stage' = [i \in 1..Len(out) |-> "Bare"]
    /\ code' = [i \in 1..Len(out) |-> 0]
    /\ pc' = "rule1"
    /\ UNCHANGED <<df, out, P, printed, summary4>>

\* variant: the rules are taken in descending priority, rule 7 first
RuleReversed(k, here, next) ==
    /\ pc = here
    /\ stage' = Assign(stage, RuleMask(8 - k), RuleStage(8 - k))
    /\ code' = Assign(code, RuleMask(8 - k), RuleCode(8 - k))
    /\ pc' = next
    /\ UNCHANGED <<df, out, P, printed, summary4>>

Rule(k, here, next) ==
    /\ pc = here
    /\ stage' = Assign(stage, RuleMask(k), RuleStage(k))
    /\ code' = Assign(code, RuleMask(k), RuleCode(k))
    /\ pc' = next
    /\ UNCHANGED <<df, out, P, printed, summary4>>

Rule1 == Rule(1, "rule1", "rule2")

Rule2 == Rule(2, "rule2", "rule3")

Rule3 == Rule(3, "rule3", "rule4")

Rule4 == Rule(4, "rule4", "rule5")

Rule5 == Rule(5, "rule5", "rule6")

Rule6 == Rule(6, "rule6", "rule7")

Rule7 == Rule(7, "rule7", "attach")

\* out["stage_4"] = stage; out["stage4_code"] = code
Attach ==
    /\ pc = "attach"
    /\ out' = WithColumn(WithColumn(out, "stage_4", stage), "stage4_code", code)
    /\ pc' = "transitions"
    /\ UNCHANGED <<df, stage, code, P, printed, summary4>>

----------------------------------------------------------------------------
(* add_four_stage_classification: printed run-starts, and the return *)

\* variant: a row starts a run only the first time its stage occurs
runs_first_occurrence(g) ==
    [i \in 1..Len(g) |-> \A j \in 1..(i - 1) : g[j].stage_4 # g[i].stage_4]

\* runs = (g["stage_4"] != g["stage_4"].shift()).fillna(True)
runs(g) ==
    [i \in 1..Len(g) |-> IF i = 1 THEN TRUE ELSE g[i].stage_4 # g[i - 1].stage_4]

\* what _transitions prints for one group: <<plot, date, stage>> per run-start
transition_lines(g0) ==
    LET g == sort_by_date(g0)
        r == runs(g)
        IsRun(i) == r[i]
        idx == SelectSeq(Range(Len(g)), IsRun)
    IN  [x \in 1..Len(idx) |-> <<g[1].plot_id, g[idx[x]].date, g[idx[x]].stage_4>>]

\* variant: _transitions returns only the rows that start a run
apply_transitions_run_starts(frame) ==
    LET ids == SortedIds(PlotIds(frame))
        starts(g) == LET r == runs(g)
                         IsRun(i) == r[i]
                         idx == SelectSeq(Range(Len(g)), IsRun)
                     IN  [x \in 1..Len(idx) |-> g[idx[x]]]
    IN  Concat([x \in 1..Len(ids) |->
                    starts(sort_by_date(Group(frame, ids[x])))])

apply_transitions(frame) ==
    LET ids == SortedIds(PlotIds(frame))
    IN  Concat([x \in 1..Len(ids) |-> sort_by_date(Group(frame, ids[x]))])

printed_lines(frame) ==
    LET ids == SortedIds(PlotIds(frame))
    IN  Concat([x \in 1..Len(ids) |-> transition_lines(Group(frame, ids[x]))])

\* out = out.groupby(...).apply(_transitions); return out;
\* df = add_four_stage_classification(df)
Transitions ==
    /\ pc = "transitions"
    /\ printed' = printed_lines(out)
    /\ out' = apply_transitions(out)
    /\ df' = out'
    /\ pc' = "summary"
    /\ UNCHANGED <<stage, code, P, summary4>>

----------------------------------------------------------------------------
(* main: summary4 *)

\* stable insertion of a row into a frame ordered by (plot_id, date)
RECURSIVE InsertByPlotDate(_, _)
InsertByPlotDate(r, s) ==
    IF s = <<>> THEN <<r>>
    ELSE IF \/ r.plot_id < Head(s).plot_id
            \/ (r.plot_id = Head(s).plot_id /\ r.date < Head(s).date)
         THEN <<r>> \o s
    ELSE <<Head(s)>> \o InsertByPlotDate(r, Tail(s))

\* frame.sort_values(["plot_id", "date"])
RECURSIVE sort_by_plot_date(_)
sort_by_plot_date(g) ==
    IF g = <<>> THEN <<>>
    ELSE InsertByPlotDate(g[Len(g)], sort_by_plot_date(SubSeq(g, 1, Len(g) - 1)))

\* variant: drop_duplicates(..., keep="last")
drop_duplicates_keep_last(frame) ==
    LET Last(i) == \A j \in (i + 1)..Len(frame) :
                        ~(frame[j].plot_id = frame[i].plot_id
                          /\ frame[j].stage_4 = frame[i].stage_4)
        idx == SelectSeq(Range(Len(frame)), Last)
    IN  [x \in 1..Len(idx) |-> frame[idx[x]]]

\* frame.drop_duplicates(subset=["plot_id", "stage_4"]): keep the first
drop_duplicates(frame) ==
    LET First(i) == \A j \in 1..(i - 1) :
                        ~(frame[j].plot_id = frame[i].plot_id
                          /\ frame[j].stage_4 = frame[i].stage_4)
        idx == SelectSeq(Range(Len(frame)), First)
    IN  [x \in 1..Len(idx) |-> frame[idx[x]]]

make_summary4(frame) ==
    LET kept == drop_duplicates(sort_by_plot_date(frame))
        cut == [i \in 1..Len(kept) |->
                    [plot_id |-> kept[i].plot_id,
                     stage_4 |-> kept[i].stage_4,
                     date    |-> kept[i].date]]
    IN  sort_by_plot_date(cut)

Summary ==
    /\ pc = "summary"
    /\ summary4' = make_summary4(df)
    /\ pc' = "done"
    /\ UNCHANGED <<df, out, stage, code, P, printed>>

----------------------------------------------------------------------------
(* main as one function of the cleaned frame *)

\* the label arrays after rules 1..k of add_four_stage_classification;
\* prev, the arrays after rules 1..k-1, is bound once and used for both
RECURSIVE labels_after(_, _)
labels_after(k, frame) ==
    IF k = 0
    THEN [stage |-> [i \in 1..Len(frame) |-> "Bare"],
          code  |-> [i \in 1..Len(frame) |-> 0]]
    ELSE CHOOSE lab \in
            {[stage |-> list(Assign(prev.stage,
                                    rule_mask(k, frame, prev.stage),
                                    RuleStage(k))),
              code  |-> list(Assign(prev.code,
                                    rule_mask(k, frame, prev.stage),
                                    RuleCode(k)))] :
                prev \in {labels_after(k - 1, frame)}} : TRUE

\* add_four_stage_classification(df) with the parameter record P
add_four_stage_classification(frame) ==
    LET sm == list(apply_smooth(list(features(frame))))
        lab == labels_after(7, sm)
    IN  list(apply_transitions(
            WithColumn(WithColumn(sm, "stage_4", lab.stage),
                       "stage4_code", lab.code)))

\* the frame main saves for a cleaned frame
run_main(frame) ==
    LET d1 == WithColumn(frame, "NDVI_slope", slope_column(frame, "NDVI"))
        d2 == WithColumn(d1, "SAVI_slope", slope_column(d1, "SAVI"))
        d3 == WithColumn(d2, "NDWI_slope", slope_column(d2, "NDWI"))
    IN  add_four_stage_classification(d3)

----------------------------------------------------------------------------
(* Inputs *)

MaxRows == 3

MaxSlopeRows == 3

MaxClsRows == 2

Plots == {1, 2}

RawRow(p, d, n, s, w) ==
    [plot_id |-> p, date |-> d, NDVI |-> n, SAVI |-> s, NDWI |-> w]

\* clean_and_prepare leaves the frame sorted by (plot_id, date); it does not
\* remove rows that repeat a date
KeyLe(a, b) ==
    \/ a.plot_id < b.plot_id
    \/ (a.plot_id = b.plot_id /\ a.date <= b.date)

SortedFrames(Rows, n) ==
    {f \in [1..n -> Rows] : \A i \in 1..(n - 1) : KeyLe(f[i], f[i + 1])}

Frames(Rows, n) == UNION {SortedFrames(Rows, k) : k \in 1..n}

\* whole pipeline: observation days and (NDVI, SAVI, NDWI) readings
PipeDays == {0, 8, 10}

PipeObs ==
    {<<Q(20, 100), Q(-10, 100), Q(10, 100)>>,
     <<Q(40, 100), Q(10, 100), Q(30, 100)>>,
     <<Q(40, 100), Q(10, 100), Q(80, 100)>>,
     <<Q(60, 100), Q(60, 100), Q(30, 100)>>}

PipeRows ==
    {RawRow(p, d, o[1], o[2], o[3]) : p \in Plots, d \in PipeDays, o \in PipeObs}

\* slope estimator alone: (NDVI, SAVI, NDWI) readings with an infinity in
\* each column, because pd.to_numeric accepts "inf" and dropna keeps it
SlopeDays == {0, 8, 9}

SlopeObs ==
    {<<Q(20, 100), Q(50, 100), PosInf>>,
     <<Q(40, 100), PosInf, Q(10, 100)>>,
     <<Q(50, 100), Q(30, 100), Q(-20, 100)>>,
     <<PosInf, Q(35, 100), Q(40, 100)>>}

SlopeRows ==
    {RawRow(p, d, o[1], o[2], o[3]) : p \in Plots, d \in SlopeDays, o \in SlopeObs}

\* classifier alone: frames that already carry the slope columns
ClsRow(p, d, g, sl, w) ==
    [NDVI_slope |-> sl[1], SAVI_slope |-> sl[2], NDWI_slope |-> Zero]
    @@ RawRow(p, d, g[1], g[2], w)

\* (NDVI, SAVI) giving G = 0.20 0.30 0.32 0.35 0.40 0.50 0.60 0.80 inf
ClsGreen ==
    {<<Q(20, 100), Q(20, 100)>>, <<Q(30, 100), Q(30, 100)>>,
     <<Q(40, 100), Q(20, 100)>>, <<Q(35, 100), Q(35, 100)>>,
     <<Q(40, 100), Q(40, 100)>>, <<Q(60, 100), Q(35, 100)>>,
     <<Q(60, 100), Q(60, 100)>>, <<Q(80, 100), Q(80, 100)>>,
     <<PosInf, Q(20, 100)>>}

\* (NDVI_slope, SAVI_slope) giving sG = -0.02 -0.0135 -0.005 -0.001 0
\* 0.001 0.003 0.0068 0.02
ClsSlopes ==
    {<<Q(-2, 100), Q(-2, 100)>>, <<Q(-135, 10000), Q(-135, 10000)>>,
     <<Q(-1, 100), Zero>>, <<Q(-1, 1000), Q(-1, 1000)>>,
     <<Zero, Zero>>, <<Q(2, 1000), Zero>>,
     <<Q(3, 1000), Q(3, 1000)>>, <<Q(68, 10000), Q(68, 10000)>>,
     <<Q(3, 100), Q(1, 100)>>}

ClsWater == {Q(10, 100), Q(45, 100), Q(50, 100)}

ClsOneRow ==
    {<<ClsRow(1, 0, g, sl, w)>> : g \in ClsGreen, sl \in ClsSlopes, w \in ClsWater}

ClsSmallRows ==
    {ClsRow(p, d, f[1], f[2], f[3]) :
        p \in Plots, d \in {0, 5},
        f \in {<<<<Q(20, 100), Q(20, 100)>>, <<Zero, Zero>>, Q(50, 100)>>,
               <<<<Q(60, 100), Q(60, 100)>>, <<Q(-1, 1000), Q(-1, 1000)>>, Q(10, 100)>>,
               <<<<Q(40, 100), Q(40, 100)>>, <<Q(3, 100), Q(1, 100)>>, Q(10, 100)>>,
               <<<<Q(80, 100), Q(80, 100)>>, <<Q(-2, 100), Q(-2, 100)>>, Q(45, 100)>>}}

ClsFrames == ClsOneRow \cup Frames(ClsSmallRows, MaxClsRows)

\* parameter records: the defaults, and records that move the bands so that
\* the rules overlap differently
ParamSets ==
    {DefaultParams,
     [DefaultParams EXCEPT !.G_seed_max = Q(60, 100)],
     [DefaultParams EXCEPT !.flat_abs = Q(5, 1000), !.W_water = Q(10, 100)],
     [DefaultParams EXCEPT !.G_high = Q(32, 100), !.G_till_max = Q(32, 100),
                           !.roll_window = 2],
     [DefaultParams EXCEPT !.fall_weak = Q(3, 1000)],
     [DefaultParams EXCEPT !.G_seed_max = Q(50, 100), !.W_water = Q(50, 100)]}

----------------------------------------------------------------------------
(* Specifications *)

Blank ==
    /\ out = <<>>
    /\ stage = <<>>
    /\ code = <<>>
    /\ printed = <<>>
    /\ summary4 = <<>>

\* the whole of main after clean_and_prepare
Init ==
    /\ pc = "slope_NDVI"
    /\ df \in Frames(PipeRows, MaxRows)
    /\ P = DefaultParams
    /\ Blank

Next ==
    \/ SlopeNDVI
    \/ SlopeSAVI
    \/ SlopeNDWI
    \/ Features
    \/ Smooth
    \/ Labels
    \/ Rule1
    \/ Rule2
    \/ Rule3
    \/ Rule4
    \/ Rule5
    \/ Rule6
    \/ Rule7
    \/ Attach
    \/ Transitions
    \/ Summary

Spec == Init /\ [][Next]_vars

\* calculate_slope on each of the three columns
InitSlope ==
    /\ pc = "slope_NDVI"
    /\ df \in Frames(SlopeRows, MaxSlopeRows)
    /\ P = DefaultParams
    /\ Blank

NextSlope ==
    \/ SlopeNDVI
    \/ SlopeSAVI
    \/ SlopeNDWI

SpecSlope == InitSlope /\ [][NextSlope]_vars

\* add_four_stage_classification(df, params)
InitClassify ==
    /\ pc = "features"
    /\ df \in ClsFrames
    /\ P \in ParamSets
    /\ Blank

NextClassify ==
    \/ Features
    \/ Smooth
    \/ Labels
    \/ Rule1
    \/ Rule2
    \/ Rule3
    \/ Rule4
    \/ Rule5
    \/ Rule6
    \/ Rule7
    \/ Attach
    \/ Transitions

SpecClassify == InitClassify /\ [][NextClassify]_vars

----------------------------------------------------------------------------
(* Properties of the rule pass *)

\* the frame "out" carries stage_4 and stage4_code
Labelled == pc \in {"transitions", "summary", "done"}

LabelOf(r) == <<r.stage_4, r.stage4_code>>

\* first match in the order 6, 5, 4, 3, 2, 1, default
C1_After6(r) ==
    IF m_water(r) THEN <<"Seedling", 1>>
    ELSE IF m_seedling(r) THEN <<"Seedling", 1>>
    ELSE IF m_plateau(r) THEN <<"Tillering", 2>>
    ELSE IF m_tillering(r) THEN <<"Tillering", 2>>
    ELSE IF m_growth(r) THEN <<"Growth", 3>>
    ELSE IF m_ripening(r) THEN <<"Ripening", 4>>
    ELSE <<"Bare", 0>>

\* rule 7 first, its condition read on the label left by rules 1..6
C1_FirstMatch(r) ==
    IF m_lowflat(r, C1_After6(r)[1]) THEN <<"Seedling", 1>> ELSE C1_After6(r)

C1_Equivalence ==
    Labelled => \A i \in 1..Len(out) : LabelOf(out[i]) = C1_FirstMatch(out[i])

\* C1 as stated: the overwrite pass equals the reverse first-match lookup,
\* and every row matching both rule 1 and rule 3 ends up Tillering.
C1_Original ==
    /\ C1_Equivalence
    /\ Labelled =>
          \A i \in 1..Len(out) :
              (m_ripening(out[i]) /\ m_tillering(out[i]))
                  => LabelOf(out[i]) = <<"Tillering", 2>>

\* C1 amended: the overwrite pass equals the reverse first-match lookup, and
\* every row matching both rule 1 and rule 3 but not the water override
\* (rule 6) ends up Tillering.
C1_LastRuleWins ==
    /\ C1_Equivalence
    /\ Labelled =>
          \A i \in 1..Len(out) :
              (m_ripening(out[i]) /\ m_tillering(out[i]) /\ ~m_water(out[i]))
                  => LabelOf(out[i]) = <<"Tillering", 2>>

\* a row that matched rule 1 and rule 3 only, and is Tillering
C1_Witness ==
    /\ Labelled
    /\ \E i \in 1..Len(out) :
          /\ m_ripening(out[i])
          /\ m_tillering(out[i])
          /\ ~m_water(out[i])
          /\ LabelOf(out[i]) = <<"Tillering", 2>>

\* C2: under the default parameters a row satisfying both the Ripening
\* predicate (rule 1) and the Growth predicate (rule 2) is finally Growth, 3.
C2_GrowthOverRipening ==
    (Labelled /\ P = DefaultParams) =>
        \A i \in 1..Len(out) :
            LET sG == out[i].sG_sm
                G == out[i].G_sm
            IN  (/\ FLe(sG, Q(-10, 10000))
                 /\ FGe(G, Q(50, 100))
                 /\ (FGe(sG, Q(10, 10000)) \/ FLe(FAbs(sG), Q(10, 10000))))
                    => LabelOf(out[i]) = <<"Growth", 3>>

C2_Witness ==
    /\ Labelled
    /\ P = DefaultParams
    /\ \E i \in 1..Len(out) :
          /\ FLe(out[i].sG_sm, P.fall_weak)
          /\ flatish(out[i])
          /\ FGe(out[i].G_sm, P.G_high)
          /\ LabelOf(out[i]) = <<"Growth", 3>>

Falling(r) == FLt(r.sG_sm, Q(-10, 10000))

C5_HighFlatIsGrowth ==
    (Labelled /\ P = DefaultParams) =>
        \A i \in 1..Len(out) :
            (FGe(out[i].G_sm, Q(50, 100)) /\ FLe(FAbs(out[i].sG_sm), Q(10, 10000)))
                => LabelOf(out[i]) = <<"Growth", 3>>

\* G_sm = 0.60, sG_sm = 0 and a wet W_sm
C5_Witness ==
    /\ Labelled
    /\ P = DefaultParams
    /\ \E i \in 1..Len(out) :
          /\ out[i].G_sm = Q(60, 100)
          /\ out[i].sG_sm = Zero
          /\ FGe(out[i].W_sm, Q(45, 100))
          /\ LabelOf(out[i]) = <<"Growth", 3>>

StageNames == {"Bare", "Seedling", "Tillering", "Growth", "Ripening"}

CodeOfStage(n) ==
    CASE n = "Bare" -> 0
      [] n = "Seedling" -> 1
      [] n = "Tillering" -> 2
      [] n = "Growth" -> 3
      [] n = "Ripening" -> 4

InRulePass ==
    pc \in {"rule1", "rule2", "rule3", "rule4", "rule5", "rule6", "rule7", "attach"}

\* C6: every row has exactly one label; the name is one of the five stages,
\* the code is in 0..4 and is the code of that name, during the rule pass
\* and in the returned frame.
C6_OneConsistentLabel ==
    /\ InRulePass =>
          /\ Len(stage) = Len(out)
          /\ Len(code) = Len(out)
          /\ \A i \in 1..Len(out) :
                /\ stage[i] \in StageNames
                /\ code[i] \in 0..4
                /\ code[i] = CodeOfStage(stage[i])
    /\ Labelled =>
          \A i \in 1..Len(out) :
              /\ out[i].stage_4 \in StageNames
              /\ out[i].stage4_code \in 0..4
              /\ out[i].stage4_code = CodeOfStage(out[i].stage_4)

\* a returned frame whose row took the plateau rule after rule 1
C6_Witness ==
    /\ Labelled
    /\ \E i \in 1..Len(out) :
          /\ m_ripening(out[i])
          /\ m_plateau(out[i])
          /\ out[i].stage_4 = "Tillering"
          /\ out[i].stage4_code = 2

----------------------------------------------------------------------------
(* Properties of the whole pipeline *)

\* plot p has exactly two observations, 10 days apart, NDVI 0.20 then 0.40,
\* SAVI rising, G below 0.30 on both
C4_Case(p) ==
    LET g == Group(df, p)
    IN  /\ Len(g) = 2
        /\ g[2].date - g[1].date = 10
        /\ g[1].NDVI = Q(20, 100)
        /\ g[2].NDVI = Q(40, 100)
        /\ FLt(g[1].SAVI, g[2].SAVI)
        /\ FLt(g[1].G, Q(30, 100))
        /\ FLt(g[2].G, Q(30, 100))

\* C4 as stated: on such a plot the pipeline yields NDVI and SAVI slopes of
\* 0.02 per day (>= rise_strong) and the label Seedling, 1.
C4_Original ==
    pc = "done" =>
        \A p \in PlotIds(df) :
            C4_Case(p) =>
                \A x \in 1..2 :
                    LET r == Group(df, p)[x]
                    IN  /\ r.NDVI_slope = Q(2, 100)
                        /\ FGe(r.SAVI_slope, Q(68, 10000))
                        /\ LabelOf(r) = <<"Seedling", 1>>

\* C4 amended: on such a plot each observation is alone in its +/-8-day
\* window, so the NDVI and SAVI slopes are exactly 0 and the label is
\* Bare, 0 (Seedling, 1 by the water override when W_sm >= 0.45).
C4_TenDaysApart ==
    pc = "done" =>
        \A p \in PlotIds(df) :
            C4_Case(p) =>
                \A x \in 1..2 :
                    LET r == Group(df, p)[x]
                    IN  /\ r.NDVI_slope = Zero
                        /\ r.SAVI_slope = Zero
                        /\ LabelOf(r) =
                              IF FGe(r.W_sm, Q(45, 100))
                              THEN <<"Seedling", 1>>
                              ELSE <<"Bare", 0>>

C4_Witness ==
    /\ pc = "done"
    /\ \E p \in PlotIds(df) :
          /\ C4_Case(p)
          /\ LabelOf(Group(df, p)[2]) = <<"Bare", 0>>

----------------------------------------------------------------------------
(* Properties of calculate_slope *)

Columns == {"NDVI", "SAVI", "NDWI"}

SlopeName(c) ==
    CASE c = "NDVI" -> "NDVI_slope"
      [] c = "SAVI" -> "SAVI_slope"
      [] c = "NDWI" -> "NDWI_slope"

\* the slope column of c has been attached to df
HasSlope(c) == \A i \in 1..Len(df) : SlopeName(c) \in DOMAIN df[i]

\* observations of the plot of row i dated within 8 days of row i
Near(i) ==
    {j \in 1..Len(df) :
        /\ df[j].plot_id = df[i].plot_id
        /\ Abs(df[j].date - df[i].date) <= 8}

\* C7: for every plot, every index column and every observation i, if fewer
\* than 2 observations of the plot (i included) are dated within 8 days of
\* observation i, the slope of observation i is exactly 0.
C7_LonelyIsZero ==
    \A c \in Columns :
        HasSlope(c) =>
            \A i \in 1..Len(df) :
                Cardinality(Near(i)) < 2 => df[i][SlopeName(c)] = Zero

\* a lonely observation in a plot whose other observation would give a
\* non-zero pairwise slope
C7_Witness ==
    /\ HasSlope("NDVI")
    /\ \E i, j \in 1..Len(df) :
          /\ Cardinality(Near(i)) < 2
          /\ df[j].plot_id = df[i].plot_id
          /\ df[j].date > df[i].date
          /\ df[j].NDVI # df[i].NDVI
          /\ df[i].NDVI_slope = Zero

\* the plot of row i is sorted by date and has no repeated date
UniqueSorted(i) ==
    \A j, k \in 1..Len(df) :
        (j < k /\ df[j].plot_id = df[i].plot_id /\ df[k].plot_id = df[i].plot_id)
            => df[j].date < df[k].date

NearPairs(i) == {p \in Near(i) \X Near(i) : p[1] < p[2]}

PairSlope(c, p) ==
    FDivDays(FSub(df[p[2]][c], df[p[1]][c]), df[p[2]].date - df[p[1]].date)

\* x is the n-th smallest of the pairwise slopes around row i
IsNth(c, i, x, n) ==
    /\ Cardinality({p \in NearPairs(i) : FLt(PairSlope(c, p), x)}) < n
    /\ n <= Cardinality({p \in NearPairs(i) : FLe(PairSlope(c, p), x)})

IsMedianOfPairs(c, i, m) ==
    LET n == Cardinality(NearPairs(i))
    IN  IF n % 2 = 1
        THEN \E p \in NearPairs(i) :
                /\ IsNth(c, i, PairSlope(c, p), (n + 1) \div 2)
                /\ m = PairSlope(c, p)
        ELSE \E p, q \in NearPairs(i) :
                /\ IsNth(c, i, PairSlope(c, p), n \div 2)
                /\ IsNth(c, i, PairSlope(c, q), n \div 2 + 1)
                /\ m = FMul(Q(1, 2), FAdd(PairSlope(c, p), PairSlope(c, q)))

\* C8: for a date-sorted plot with unique dates and (finite) real values,
\* and every observation i with at least 2 observations within 8 days
\* (8 included), the slope is the median of (v_k - v_j)/(date_k - date_j)
\* over all pairs j < k of observations of the plot within 8 days of i.
C8_MedianOfPairs ==
    \A c \in Columns :
        HasSlope(c) =>
            \A i \in 1..Len(df) :
                (/\ UniqueSorted(i)
                 /\ Cardinality(Near(i)) >= 2
                 /\ \A j \in Near(i) : IsFinite(df[j][c]))
                    => IsMedianOfPairs(c, i, df[i][SlopeName(c)])

\* three observations in one window, one of them exactly 8 days from i,
\* and a non-zero slope
C8_Witness ==
    /\ HasSlope("NDVI")
    /\ \E i \in 1..Len(df) :
          /\ UniqueSorted(i)
          /\ Cardinality(Near(i)) = 3
          /\ \A j \in Near(i) : IsFinite(df[j].NDVI)
          /\ \E j \in Near(i) : Abs(df[j].date - df[i].date) = 8
          /\ df[i].NDVI_slope # Zero

\* the values appended to slopes, before fillna/replace, aligned with df
RawColumn(c) ==
    LET ids == SortedIds(PlotIds(df))
        per_group == list([x \in 1..Len(ids) |-> slopes_list(Group(df, ids[x]), c)])
    IN  list([i \in 1..Len(df) |->
            per_group[PosIn(ids, df[i].plot_id)]
                [PosIn(GroupIdx(df, df[i].plot_id), i)]])

\* C9: every observation gets one slope, every slope is a finite number,
\* and a NaN or an infinity coming out of the median is replaced by 0.
C9_SlopesFinite ==
    \A c \in Columns :
        (\E i \in 1..Len(df) : SlopeName(c) \in DOMAIN df[i]) =>
            LET raw == RawColumn(c)
            IN  \A i \in 1..Len(df) :
                    /\ SlopeName(c) \in DOMAIN df[i]
                    /\ IsFinite(df[i][SlopeName(c)])
                    /\ ~IsFinite(raw[i]) => df[i][SlopeName(c)] = Zero
                    /\ IsFinite(raw[i]) => df[i][SlopeName(c)] = raw[i]

\* the median gave NaN for one row and -infinity for another
C9_Witness ==
    /\ HasSlope("NDVI")
    /\ \E i, j \in 1..Len(df) :
          /\ RawColumn("NDVI")[i] = NaN
          /\ RawColumn("NDVI")[j] = NegInf
          /\ df[i].NDVI_slope = Zero
          /\ df[j].NDVI_slope = Zero

\* every value of column c multiplied by k, or shifted by b
Scaled(frame, c, k) ==
    list([i \in 1..Len(frame) |-> [frame[i] EXCEPT ![c] = FMul(k, @)]])

Shifted(frame, c, b) ==
    list([i \in 1..Len(frame) |-> [frame[i] EXCEPT ![c] = FAdd(@, b)]])

TimesEach(k, column) == list([i \in 1..Len(column) |-> FMul(k, column[i])])

Factors == {Q(2, 1), Q(-1, 1)}

Offsets == {Q(1, 10)}

\* the slope column of c is the one just attached
JustComputed(c) ==
    \/ (c = "NDVI" /\ pc = "slope_SAVI")
    \/ (c = "SAVI" /\ pc = "slope_NDWI")
    \/ (c = "NDWI" /\ pc = "features")

\* C10 as stated: rescaling every value of a column leaves every slope
\* unchanged, and adding one constant to every value changes the slopes.
C10_Original ==
    \A c \in Columns :
        JustComputed(c) =>
            /\ \A k \in Factors :
                  slope_column(Scaled(df, c, k), c) = slope_column(df, c)
            /\ \A b \in Offsets :
                  slope_column(Shifted(df, c, b), c) # slope_column(df, c)

\* C10 amended: adding one constant to every value of a column leaves every
\* slope unchanged, and multiplying every value by k multiplies every slope
\* by k (so the slopes are not invariant to scale).
C10_OffsetInvariant ==
    \A c \in Columns :
        JustComputed(c) =>
            /\ \A b \in Offsets :
                  slope_column(Shifted(df, c, b), c) = slope_column(df, c)
            /\ \A k \in Factors :
                  slope_column(Scaled(df, c, k), c)
                      = TimesEach(k, slope_column(df, c))

\* a frame with a non-zero slope: the shift keeps it, the scaling changes it
C10_Witness ==
    /\ JustComputed("NDVI")
    /\ \E i \in 1..Len(df) : df[i].NDVI_slope # Zero
    /\ slope_column(Shifted(df, "NDVI", Q(1, 10)), "NDVI")
          = [i \in 1..Len(df) |-> df[i].NDVI_slope]
    /\ slope_column(Scaled(df, "NDVI", Q(2, 1)), "NDVI")
          # [i \in 1..Len(df) |-> df[i].NDVI_slope]

----------------------------------------------------------------------------
(* calculate_slope on a straight line with one value off it *)

MaxOutlierRows == 5

OutlierDays == {0, 3, 5, 8, 11, 16}

\* gradients per day of the line, its value on day 0, and how far the one
\* outlier is moved off the line
Gradients == {Q(1, 100), Q(-1, 200)}

Intercept == Q(30, 100)

Jumps == {Zero, Q(50, 100), Q(-20, 100)}

OnLineValue(a, t) == FAdd(Intercept, FMul(a, Q(t, 1)))

\* one plot, dates in order (a date may repeat), NDVI on the line of
\* gradient a except that observation o is moved by jump
OutlierFrame(dates, a, o, jump) ==
    list([i \in 1..Len(dates) |->
        RawRow(1, dates[i],
               IF i = o THEN FAdd(OnLineValue(a, dates[i]), jump)
               ELSE OnLineValue(a, dates[i]),
               Q(10, 100), Q(10, 100))])

OutlierFrames(n) ==
    {OutlierFrame(dates, a, o, jump) :
        dates \in {f \in [1..n -> OutlierDays] :
                      \A i \in 1..(n - 1) : f[i] <= f[i + 1]},
        a \in Gradients, o \in 1..n, jump \in Jumps}

InitOutlier ==
    /\ pc = "slope_NDVI"
    /\ df \in UNION {OutlierFrames(n) : n \in 1..MaxOutlierRows}
    /\ P = DefaultParams
    /\ Blank

NextOutlier == SlopeNDVI

SpecOutlier == InitOutlier /\ [][NextOutlier]_vars

\* the NDVI values of the observations in S lie on one line of gradient a
OnLine(S, a) ==
    \A j, k \in S :
        FSub(df[k].NDVI, df[j].NDVI)
            = FMul(a, Q(df[k].date - df[j].date, 1))

\* S without o lies on a line of gradient a, o does not
SingleOutlier(S, a, o) ==
    /\ o \in S
    /\ OnLine(S \ {o}, a)
    /\ ~OnLine(S, a)

DistinctDates(S) == \A j, k \in S : j # k => df[j].date # df[k].date

\* "negligibly close": within a tenth of the weak-rise threshold
Negligible == Q(1, 10000)

\* C11 as stated: for every window of at least 2 observations (on distinct
\* dates) whose values lie on a line of gradient a except for a single
\* outlier (the other observations span at least two dates, so that a is
\* determined), the slope stays negligibly close to a.
C11_Original ==
    HasSlope("NDVI") =>
        \A i \in 1..Len(df) : \A a \in Gradients : \A o \in Near(i) :
            (/\ Cardinality(Near(i)) >= 2
             /\ DistinctDates(Near(i))
             /\ SingleOutlier(Near(i), a, o)
             /\ \E j, k \in Near(i) \ {o} : df[j].date # df[k].date)
                => FLe(FAbs(FSub(df[i].NDVI_slope, a)), Negligible)

\* C11 amended: for every window of at least 5 observations on distinct
\* dates whose values lie exactly on a line of gradient a except for a
\* single outlier, the slope is exactly a.
C11_OutlierRobust ==
    HasSlope("NDVI") =>
        \A i \in 1..Len(df) : \A a \in Gradients : \A o \in Near(i) :
            (/\ Cardinality(Near(i)) >= 5
             /\ DistinctDates(Near(i))
             /\ SingleOutlier(Near(i), a, o))
                => df[i].NDVI_slope = a

\* a window of five observations whose first one is half a unit above the
\* line, and the slope is the gradient of the line
C11_Witness ==
    /\ HasSlope("NDVI")
    /\ \E i \in 1..Len(df) : \E a \in Gradients : \E o \in Near(i) :
          /\ Cardinality(Near(i)) >= 5
          /\ DistinctDates(Near(i))
          /\ SingleOutlier(Near(i), a, o)
          /\ \A j \in Near(i) : o <= j
          /\ df[o].NDVI = FAdd(OnLineValue(a, df[o].date), Q(50, 100))
          /\ df[i].NDVI_slope = a

----------------------------------------------------------------------------
(* Running the program again on its own output *)

RawNames == {"plot_id", "date", "NDVI", "SAVI", "NDWI"}

\* the five input columns of a frame
RawOf(frame) ==
    list([i \in 1..Len(frame) |-> [c \in RawNames |-> frame[i][c]]])

\* C12: when main has finished, running the slope estimation and the
\* classification again on the raw columns (plot_id, date, NDVI, SAVI, NDWI)
\* of the saved frame yields a frame identical to the saved one: same rows
\* in the same order, same raw and derived columns.
C12_RerunIdentical ==
    pc = "done" => run_main(RawOf(df)) = df

\* a finished run on a plot whose NDWI values are not all equal and whose
\* labels are not all equal
C12_Witness ==
    /\ pc = "done"
    /\ \E i, j \in 1..Len(df) :
          /\ df[i].plot_id = df[j].plot_id
          /\ df[i].NDWI # df[j].NDWI
          /\ df[i].stage_4 # df[j].stage_4
    /\ run_main(RawOf(df)) = df

----------------------------------------------------------------------------
(* Properties of the helper masks *)

\* the frame "out" carries the smoothed features
Smoothed ==
    pc \in {"labels", "rule1", "rule2", "rule3", "rule4", "rule5", "rule6",
            "rule7", "attach", "transitions", "summary", "done"}

\* C13: the slope thresholds are inclusive. A row with sG_sm equal to
\* rise_strong is rising_strong and not rising_weak; a row with |sG_sm|
\* equal to flat_abs is flatish; a row with sG_sm equal to fall_strong is
\* falling_strong and not falling_weak.
C13_InclusiveBounds ==
    Smoothed =>
        \A i \in 1..Len(out) :
            /\ out[i].sG_sm = P.rise_strong
                  => (rising_str(out[i]) /\ ~rising_weak(out[i]))
            /\ FAbs(out[i].sG_sm) = P.flat_abs => flatish(out[i])
            /\ out[i].sG_sm = P.fall_strong
                  => (falling_str(out[i]) /\ ~falling_weak(out[i]))

\* a row whose smoothed slope is the default rise_strong 0.0068: it is
\* rising_strong, and with middling greenness rule 3 makes it Tillering
C13_Witness ==
    /\ pc = "transitions"
    /\ P = DefaultParams
    /\ \E i \in 1..Len(out) :
          /\ out[i].sG_sm = Q(68, 10000)
          /\ out[i].G_sm = Q(40, 100)
          /\ rising_str(out[i])
          /\ ~rising_weak(out[i])
          /\ out[i].stage_4 = "Tillering"

----------------------------------------------------------------------------
(* Properties of the smoothing *)

\* rows of the plot of row i, in frame order
PlotRows(i) == GroupIdx(out, out[i].plot_id)

\* row i and the rows just before and just after it within its plot
Window3(i) ==
    LET rows == PlotRows(i)
        k == PosIn(rows, i)
    IN  {rows[x] : x \in {k - 1, k, k + 1} \cap (1..Len(rows))}

\* m is the median of column c over the rows S (one, two or three rows)
IsMedianOf(c, S, m) ==
    CASE Cardinality(S) = 1 -> \A j \in S : m = out[j][c]
      [] Cardinality(S) = 2 ->
            \E j, k \in S :
                /\ j # k
                /\ m = FMul(Q(1, 2), FAdd(out[j][c], out[k][c]))
      [] Cardinality(S) = 3 ->
            /\ \E j \in S : m = out[j][c]
            /\ Cardinality({j \in S : FLe(out[j][c], m)}) >= 2
            /\ Cardinality({j \in S : FGe(out[j][c], m)}) >= 2

\* C14: with roll_window = 3, the rows of each plot stand in date order and
\* G_sm (likewise sG_sm, W_sm) of a row is the median of G (sG, W) over the
\* row, the row before it and the row after it in the same plot, as far as
\* they exist: the median of three in the interior, the mean of two at
\* either end, the value itself in a one-row plot. No value of another plot
\* enters, and no smoothed value is left undefined.
C14_CentredMedian ==
    (Smoothed /\ P.roll_window = 3) =>
        \A i \in 1..Len(out) :
            /\ \A j \in 1..Len(out) :
                  (j < i /\ out[j].plot_id = out[i].plot_id)
                      => out[j].date <= out[i].date
            /\ IsMedianOf("G", Window3(i), out[i].G_sm)
            /\ IsMedianOf("sG", Window3(i), out[i].sG_sm)
            /\ IsMedianOf("W", Window3(i), out[i].W_sm)
            /\ IsFinite(out[i].G_sm)
            /\ IsFinite(out[i].sG_sm)
            /\ IsFinite(out[i].W_sm)

\* a plot of three rows with three different W values: the middle row
\* gets the median of the three, which is not its own value, and the two
\* end rows get the mean of two
C14_Witness ==
    /\ Smoothed
    /\ P.roll_window = 3
    /\ Len(out) = 3
    /\ out[1].plot_id = out[3].plot_id
    /\ out[1].W # out[2].W
    /\ out[2].W # out[3].W
    /\ out[1].W # out[3].W
    /\ out[2].W_sm # out[2].W
    /\ out[2].W_sm \in {out[1].W, out[3].W}
    /\ out[1].W_sm = FMul(Q(1, 2), FAdd(out[1].W, out[2].W))
    /\ out[3].W_sm = FMul(Q(1, 2), FAdd(out[2].W, out[3].W))

----------------------------------------------------------------------------
(* Rows and their derived values stay together *)

\* the label the seven rules give a row taken on its own
RowLabel(r) ==
    LET lab == labels_after(7, <<r>>)
    IN  <<lab.stage[1], lab.code[1]>>

C15_Step ==
    /\ RawOf(df') = RawOf(df)
    /\ out' # <<>> => RawOf(out') = RawOf(df)
    /\ pc' \in {"rule1", "rule2", "rule3", "rule4", "rule5", "rule6",
                "rule7", "attach"}
          => (Len(stage') = Len(out') /\ Len(code') = Len(out'))
    /\ pc' \in {"transitions", "summary", "done"}
          => \A i \in 1..Len(out') : LabelOf(out'[i]) = RowLabel(out'[i])
    /\ pc' \in {"summary", "done"} => df' = out'

\* C15: for an input sorted by (plot_id, date), no step of the pipeline
\* drops, duplicates or reorders observations: after every step df, and
\* the classifier's frame out, hold the input's rows in the input's order;
\* the label arrays have one entry per row, and the label attached to a
\* row is the one the rules give that row's own smoothed features.
C15_RowsKept == [][C15_Step]_vars

\* a finished run on three rows of two plots with two different labels,
\* every row carrying the label of its own features
C15_Witness ==
    /\ pc = "done"
    /\ Len(df) = 3
    /\ PlotIds(df) = {1, 2}
    /\ \E i, j \in 1..Len(df) : df[i].stage_4 # df[j].stage_4
    /\ \A i \in 1..Len(df) : LabelOf(df[i]) = RowLabel(df[i])
    /\ \A i \in 1..(Len(df) - 1) : KeyLe(df[i], df[i + 1])

----------------------------------------------------------------------------
(* Plots do not influence each other *)

\* C16: when main has finished, the saved rows of every plot (slopes,
\* smoothed features, labels) are exactly what main saves when it is given
\* the observations of that plot alone; so they do not depend on the
\* observations of other plots, nor on the order in which plots are taken.
C16_PlotAlone ==
    pc = "done" =>
        \A p \in PlotIds(df) :
            Group(df, p) = run_main(Group(RawOf(df), p))

\* a finished run on two plots with different observations, one of them
\* with two observations close enough to have a slope
C16_Witness ==
    /\ pc = "done"
    /\ PlotIds(df) = {1, 2}
    /\ \E i, j, k \in 1..Len(df) :
          /\ df[i].plot_id = 1
          /\ df[j].plot_id = 1
          /\ df[k].plot_id = 2
          /\ df[i].NDVI_slope # Zero
          /\ df[i].NDWI # df[j].NDWI
          /\ df[k].NDWI # df[i].NDWI
          /\ df[k].NDWI # df[j].NDWI
          /\ df[k].stage_4 # df[i].stage_4
    /\ Group(df, 1) = run_main(Group(RawOf(df), 1))

----------------------------------------------------------------------------
(* Properties of summary4 *)

\* the (plot_id, stage_4) pairs of a frame
StagePairs(frame) ==
    {<<frame[i].plot_id, frame[i].stage_4>> : i \in 1..Len(frame)}

\* the dates on which plot p carries stage s in df
DatesOf(p, s) ==
    {df[i].date : i \in {j \in 1..Len(df) :
                            df[j].plot_id = p /\ df[j].stage_4 = s}}

\* C17: summary4 has exactly one row for every (plot_id, stage_4) pair that
\* occurs in the labelled frame and no other row, and the date of that row
\* is the earliest date on which the plot carries that stage; a later date
\* on which the plot returns to the stage is not in the summary.
C17_FirstOccurrence ==
    pc = "done" =>
        /\ StagePairs(summary4) = StagePairs(df)
        /\ Len(summary4) = Cardinality(StagePairs(df))
        /\ \A x \in 1..Len(summary4) :
              /\ DOMAIN summary4[x] = {"plot_id", "stage_4", "date"}
              /\ summary4[x].date
                    \in DatesOf(summary4[x].plot_id, summary4[x].stage_4)
              /\ \A d \in DatesOf(summary4[x].plot_id, summary4[x].stage_4) :
                    summary4[x].date <= d

\* a plot that is Seedling on day 0, something else on day 8 and Seedling
\* again on day 10: the summary has Seedling on day 0 and nothing on day 10
C17_Witness ==
    /\ pc = "done"
    /\ Len(df) = 3
    /\ df[1].plot_id = df[3].plot_id
    /\ df[1].date = 0
    /\ df[2].date = 8
    /\ df[3].date = 10
    /\ df[1].stage_4 = df[3].stage_4
    /\ df[1].stage_4 # df[2].stage_4
    /\ Len(summary4) = 2
    /\ summary4[1].date = 0
    /\ summary4[2].date = 8

----------------------------------------------------------------------------
(* Seedling and Tillering rows and their slope *)

EarlyStage(r) == r.stage_4 \in {"Seedling", "Tillering"}

----------------------------------------------------------------------------
(* The last rule and the label array it reads *)

\* low and flat, by the thresholds of the parameter record
LowAndFlat(r) ==
    /\ FLt(r.G_sm, P.G_seed_max)
    /\ FLe(FAbs(r.sG_sm), P.flat_abs)

C19_Step ==
    pc = "rule7" =>
        \A i \in 1..Len(stage) :
            IF stage[i] = "Growth" /\ LowAndFlat(out[i])
            THEN /\ stage'[i] = "Seedling"
                 /\ code'[i] = 1
                 /\ FGe(out[i].G_sm, P.G_high)
            ELSE /\ stage'[i] = stage[i]
                 /\ code'[i] = code[i]

----------------------------------------------------------------------------
(* The slope predicates within one group *)

\* C20: under the default parameters, for every smoothed slope, a row is
\* never rising_strong and rising_weak at once, and never falling_weak and
\* falling_strong at once.
C20_ExclusiveWithinGroup ==
    (Smoothed /\ P = DefaultParams) =>
        \A i \in 1..Len(out) :
            /\ ~(rising_str(out[i]) /\ rising_weak(out[i]))
            /\ ~(falling_weak(out[i]) /\ falling_str(out[i]))

\* under the default parameters a row with sG_sm = 0.02, above both rise
\* thresholds, is rising_strong only, next to a row with sG_sm = -0.02,
\* below both fall thresholds, which is falling_strong only
C20_Witness ==
    /\ Smoothed
    /\ P = DefaultParams
    /\ \E i \in 1..Len(out) :
          /\ out[i].sG_sm = Q(2, 100)
          /\ rising_str(out[i])
          /\ ~rising_weak(out[i])
    /\ \E j \in 1..Len(out) :
          /\ out[j].sG_sm = Q(-2, 100)
          /\ falling_str(out[j])
          /\ ~falling_weak(out[j])

----------------------------------------------------------------------------
(* The order of the pipeline's stages *)

PcOrder ==
    <<"slope_NDVI", "slope_SAVI", "slope_NDWI", "features", "smooth",
      "labels", "rule1", "rule2", "rule3", "rule4", "rule5", "rule6",
      "rule7", "attach", "transitions", "summary", "done">>

PcIndex == CHOOSE n \in 1..Len(PcOrder) : PcOrder[n] = pc

\* every row of the frame has every one of the columns
HasAll(frame, names) == \A i \in 1..Len(frame) : names \subseteq DOMAIN frame[i]

\* every row of the frame has none of the columns
HasNone(frame, names) ==
    \A i \in 1..Len(frame) : names \cap DOMAIN frame[i] = {}

\* what has been produced, and what has not, when control stands at pc
C21_Produced ==
    LET n == PcIndex
    IN  /\ n >= 2 => HasAll(df, {"NDVI_slope"})
        /\ n >= 3 => HasAll(df, {"SAVI_slope"})
        /\ n >= 4 => HasAll(df, {"NDVI_slope", "SAVI_slope", "NDWI_slope"})
        /\ n <= 4 => out = <<>>
        /\ n >= 5 => (Len(out) = Len(df) /\ HasAll(out, {"G", "W", "sG"}))
        /\ n = 5 => HasNone(out, {"G_sm", "sG_sm", "W_sm"})
        /\ n >= 6 => HasAll(out, {"G_sm", "sG_sm", "W_sm"})
        /\ n <= 6 => (stage = <<>> /\ code = <<>>)
        /\ (n >= 7 /\ n <= 14)
              => (/\ stage = labels_after(n - 7, out).stage
                  /\ code = labels_after(n - 7, out).code)
        /\ n <= 14 => HasNone(out, {"stage_4", "stage4_code"})
        /\ n >= 15 => HasAll(out, {"stage_4", "stage4_code"})

\* control moves from one stage to the next one
C21_Step ==
    \E n \in 1..(Len(PcOrder) - 1) : pc = PcOrder[n] /\ pc' = PcOrder[n + 1]

\* C21: the stages run in one fixed order on complete data. Control moves
\* only from one stage to the next; all three slope columns are on every
\* row before G, W, sG are composed; these are on every row before any
\* smoothed value exists; the smoothed values are on every row before the
\* first rule; when rule k is about to run the label arrays are those of
\* rules 1..k-1 applied in order; stage_4 and stage4_code are attached
\* only after rule 7.
C21_FixedOrder == []C21_Produced /\ [][C21_Step]_vars

\* rule 7 has run on three rows: every column up to the smoothed ones is
\* there, the labels are those of rules 1..7 and are not all equal, and
\* nothing is attached yet
C21_Witness ==
    /\ pc = "attach"
    /\ Len(out) = 3
    /\ HasAll(out, {"NDVI_slope", "SAVI_slope", "NDWI_slope", "G", "W", "sG",
                    "G_sm", "sG_sm", "W_sm"})
    /\ HasNone(out, {"stage_4", "stage4_code"})
    /\ stage = labels_after(7, out).stage
    /\ \E i, j \in 1..3 : stage[i] # stage[j]

----------------------------------------------------------------------------
(* add_four_stage_classification and its argument *)

InputNames ==
    {"plot_id", "date", "NDVI", "SAVI", "NDWI",
     "NDVI_slope", "SAVI_slope", "NDWI_slope"}

\* the columns a frame had when it was passed to the classifier
InputOf(frame) ==
    list([i \in 1..Len(frame) |-> [c \in InputNames |-> frame[i][c]]])

\* the call is under way: from its first statement to its return
InCall ==
    pc \in {"features", "smooth", "labels", "rule1", "rule2", "rule3",
            "rule4", "rule5", "rule6", "rule7", "attach", "transitions"}

C22_Step ==
    InCall =>
        /\ pc # "transitions" => df' = df
        /\ HasAll(df, InputNames)
        /\ InputOf(out') = InputOf(df)
        /\ pc = "transitions" => InputOf(df') = InputOf(df)

\* C22: add_four_stage_classification does not change the frame it is
\* given: during the call the caller's frame keeps its columns and values,
\* and in the frame it works on and returns the columns plot_id, date, NDVI,
\* SAVI, NDWI, NDVI_slope, SAVI_slope, NDWI_slope of every row equal those
\* of the corresponding input row; everything else it writes is a new column.
C22_InputKept == [][C22_Step]_vars

\* the call is about to return a frame of two rows: the argument still has
\* its eight columns only, the frame to return has them unchanged next to
\* the new ones, and smoothing has moved G_sm away from G
C22_Witness ==
    /\ pc = "transitions"
    /\ Len(df) = 2
    /\ \A i \in 1..Len(df) : DOMAIN df[i] = InputNames
    /\ InputOf(out) = df
    /\ HasAll(out, {"G", "W", "sG", "G_sm", "sG_sm", "W_sm", "stage_4",
                    "stage4_code"})
    /\ \E i \in 1..Len(out) : out[i].G_sm # out[i].G

----------------------------------------------------------------------------
(* calculate_slope and observations that share a date *)

\* pairs of observations around row i with a positive date difference
PosPairs(i) ==
    {p \in Near(i) \X Near(i) : df[p[2]].date - df[p[1]].date > 0}

\* x is the n-th smallest slope over the pairs PosPairs(i)
IsNthPos(c, i, x, n) ==
    /\ Cardinality({p \in PosPairs(i) : FLt(PairSlope(c, p), x)}) < n
    /\ n <= Cardinality({p \in PosPairs(i) : FLe(PairSlope(c, p), x)})

IsMedianOfPosPairs(c, i, m) ==
    LET n == Cardinality(PosPairs(i))
    IN  IF n % 2 = 1
        THEN \E p \in PosPairs(i) :
                /\ IsNthPos(c, i, PairSlope(c, p), (n + 1) \div 2)
                /\ m = PairSlope(c, p)
        ELSE \E p, q \in PosPairs(i) :
                /\ IsNthPos(c, i, PairSlope(c, p), n \div 2)
                /\ IsNthPos(c, i, PairSlope(c, q), n \div 2 + 1)
                /\ m = FMul(Q(1, 2), FAdd(PairSlope(c, p), PairSlope(c, q)))

\* some two observations around row i share a date
SharedDate(i) == \E j, k \in Near(i) : j # k /\ df[j].date = df[k].date

\* C23: no pairwise slope is a division by a zero date difference. For every
\* observation i whose window holds 2 or more observations (finite values),
\* dates repeated or not: if no pair of the window has a positive date
\* difference the slope is 0, otherwise the slope is the median of
\* (v_k - v_j)/(date_k - date_j) over exactly the pairs with
\* date_k - date_j > 0.
C23_NoZeroDivision ==
    \A c \in Columns :
        HasSlope(c) =>
            \A i \in 1..Len(df) :
                (/\ Cardinality(Near(i)) >= 2
                 /\ \A j \in Near(i) : IsFinite(df[j][c]))
                    => IF PosPairs(i) = {}
                       THEN df[i][SlopeName(c)] = Zero
                       ELSE IsMedianOfPosPairs(c, i, df[i][SlopeName(c)])

\* an observation whose window holds two or more observations, all on one
\* day and with different finite NDVI values: its slope is 0
C23_Witness ==
    /\ HasSlope("NDVI")
    /\ \E i \in 1..Len(df) :
          /\ Cardinality(Near(i)) >= 2
          /\ PosPairs(i) = {}
          /\ \E j \in Near(i) : df[j].NDVI # df[i].NDVI
          /\ \A j \in Near(i) : IsFinite(df[j].NDVI)
          /\ df[i].NDVI_slope = Zero

----------------------------------------------------------------------------
(* The printed run-starts *)

\* the transitions have been printed and the labelled frame is in df
Printed == pc \in {"summary", "done"}

\* row i of df is the first row of its plot, or its stage differs from the
\* row just before it
IsRunStart(i) ==
    \/ i = 1
    \/ df[i - 1].plot_id # df[i].plot_id
    \/ df[i - 1].stage_4 # df[i].stage_4

RunStartRows == SelectSeq(Range(Len(df)), IsRunStart)

\* C24: with every plot in date order, the lines printed are, in order,
\* exactly the observations that are the first of their plot or whose
\* stage_4 differs from the observation just before them in the same plot;
\* so two consecutive lines of one plot carry different stages, and a stage
\* the plot returns to is printed again.
C24_RunStarts ==
    Printed =>
        /\ \A i \in 1..(Len(df) - 1) : KeyLe(df[i], df[i + 1])
        /\ printed = [x \in 1..Len(RunStartRows) |->
                        <<df[RunStartRows[x]].plot_id,
                          df[RunStartRows[x]].date,
                          df[RunStartRows[x]].stage_4>>]
        /\ \A x \in 1..(Len(printed) - 1) :
              printed[x][1] = printed[x + 1][1]
                  => printed[x][3] # printed[x + 1][3]

\* a plot observed on days 0, 8 and 10 that leaves a stage and returns to
\* it: three lines are printed, the first and the third with the same stage
C24_Witness ==
    /\ Printed
    /\ Len(df) = 3
    /\ df[1].plot_id = df[3].plot_id
    /\ df[1].date = 0
    /\ df[2].date = 8
    /\ df[3].date = 10
    /\ Len(printed) = 3
    /\ printed[1][3] = printed[3][3]
    /\ printed[1][3] # printed[2][3]
    /\ printed[3][2] = 10

----------------------------------------------------------------------------
(* clean_and_prepare *)

\* a cell as read from the CSV: what it holds, and its value if it has one
DateCell(d) == [kind |-> "date", v |-> d]

PlotCell(p) == [kind |-> "num", v |-> p]

NumCell(x) == [kind |-> "num", v |-> x]

\* a cell that is not a date or number: empty, a repeated header name, or
\* other text
OddCell(k, x) == [kind |-> k, v |-> x]

CsvRow(p, d, n, s, w) ==
    [plot_id |-> p, date |-> d, NDVI |-> n, SAVI |-> s, NDWI |-> w]

\* df.dropna(how='all'): a row is dropped when every cell is empty
all_empty(r) ==
    \A c \in {"plot_id", "date", "NDVI", "SAVI", "NDWI"} : r[c].kind = "blank"

\* is_header_like_row: the date cell reads "date" or the plot_id cell
\* "plot_id" (the lower-case keys ndvi, savi, ndwi name no column)
is_header_like_row(r) == r.date.kind = "header" \/ r.plot_id.kind = "header"

\* pd.to_datetime(..., errors='coerce'): TRUE when the result is not NaT
date_parses(r) == r.date.kind = "date"

\* pd.to_numeric(..., errors='coerce'): NaN for what is not a number
to_numeric(cell) == IF cell.kind = "num" THEN cell.v ELSE NaN

\* dropna(subset=['plot_id', 'NDVI', 'SAVI', 'NDWI']) keeps the row
numeric_ok(r) ==
    /\ r.plot_id.kind = "num"
    /\ \A c \in {"NDVI", "SAVI", "NDWI"} : ~IsNaN(to_numeric(r[c]))

clean_and_prepare(raw) ==
    LET Keep(r) == /\ ~all_empty(r)
                   /\ ~is_header_like_row(r)
                   /\ date_parses(r)
                   /\ numeric_ok(r)
        kept == SelectSeq(raw, Keep)
        typed == [i \in 1..Len(kept) |->
                    RawRow(kept[i].plot_id.v, kept[i].date.v,
                           to_numeric(kept[i].NDVI), to_numeric(kept[i].SAVI),
                           to_numeric(kept[i].NDWI))]
    IN  list(sort_by_plot_date(typed))

\* df = clean_and_prepare(df)
CleanAndPrepare ==
    /\ pc = "clean"
    /\ df' = clean_and_prepare(df)
    /\ pc' = "slope_NDVI"
    /\ UNCHANGED <<out, stage, code, P, printed, summary4>>

MaxCleanRows == 3

\* rows of a CSV: well-formed ones, and one of each kind that is dropped
CsvGoodRows ==
    {CsvRow(PlotCell(p), DateCell(d), NumCell(n), NumCell(Q(10, 100)),
            NumCell(Q(10, 100))) :
        p \in Plots, d \in {0, 8}, n \in {Q(20, 100), Q(40, 100)}}

CsvBadRows ==
    {CsvRow(OddCell("blank", 0), OddCell("blank", 0), OddCell("blank", NaN),
            OddCell("blank", NaN), OddCell("blank", NaN)),
     CsvRow(OddCell("header", 0), OddCell("header", 0), OddCell("text", NaN),
            OddCell("text", NaN), OddCell("text", NaN)),
     CsvRow(PlotCell(1), OddCell("junk", 0), NumCell(Q(20, 100)),
            NumCell(Q(10, 100)), NumCell(Q(10, 100))),
     CsvRow(PlotCell(1), DateCell(0), OddCell("text", NaN),
            NumCell(Q(10, 100)), NumCell(Q(10, 100))),
     CsvRow(PlotCell(2), DateCell(8), NumCell(Q(20, 100)),
            NumCell(Q(10, 100)), OddCell("blank", NaN)),
     CsvRow(OddCell("text", 0), DateCell(8), NumCell(Q(20, 100)),
            NumCell(Q(10, 100)), NumCell(Q(10, 100)))}

CsvFrames ==
    UNION {[1..n -> CsvGoodRows \cup CsvBadRows] : n \in 1..MaxCleanRows}

\* pd.read_csv followed by clean_and_prepare
InitClean ==
    /\ pc = "clean"
    /\ df \in CsvFrames
    /\ P = DefaultParams
    /\ Blank

NextClean == CleanAndPrepare

SpecClean == InitClean /\ [][NextClean]_vars

\* clean_and_prepare has returned
Cleaned == pc = "slope_NDVI"

\* C25 as stated: after clean_and_prepare the rows are sorted ascending by
\* (plot_id, date) and within every plot the dates are strictly increasing
\* (no two rows of one plot share a date), whatever the raw rows were.
C25_SortedUniqueDates ==
    Cleaned =>
        /\ \A i \in 1..(Len(df) - 1) : KeyLe(df[i], df[i + 1])
        /\ \A i, j \in 1..Len(df) :
              (i < j /\ df[i].plot_id = df[j].plot_id)
                  => df[i].date < df[j].date

----------------------------------------------------------------------------
(* The rows left Bare *)

\* low, flat and not wet, by the default thresholds
LowFlatDry(r) ==
    /\ FGt(r.sG_sm, Q(-10, 10000))
    /\ FLt(r.sG_sm, Q(10, 10000))
    /\ FLt(r.G_sm, Q(35, 100))
    /\ FLt(r.W_sm, Q(45, 100))

----------------------------------------------------------------------------
(* Parameter records under which the last rule changes nothing *)

C27_Step ==
    (pc = "rule7" /\ FLe(P.G_seed_max, P.G_high)) =>
        (stage' = stage /\ code' = code)

----------------------------------------------------------------------------
(* Calling the classifier again with another G_till_max *)

TillMaxValues == {Q(10, 100), Q(50, 100), Q(90, 100)}

\* df = add_four_stage_classification(df, params) called again, on the frame
\* the first call returned and with a parameter record that differs in
\* G_till_max only; out = df.copy() and the column assignments that follow
\* overwrite every derived column, so the call reads the input columns alone
CallAgain ==
    /\ pc = "summary"
    /\ \E x \in TillMaxValues \ {P.G_till_max} :
          P' = [P EXCEPT !.G_till_max = x]
    /\ pc' = "features"
    /\ out' = <<>>
    /\ stage' = <<>>
    /\ code' = <<>>
    /\ printed' = <<>>
    /\ UNCHANGED <<df, summary4>>

NextParams == NextClassify \/ CallAgain

SpecParams == InitClassify /\ [][NextParams]_vars

\* the two records agree on every parameter but G_till_max
OnlyTillMaxDiffers(p1, p2) ==
    /\ p1.G_till_max # p2.G_till_max
    /\ [p1 EXCEPT !.G_till_max = p2.G_till_max] = p2

\* a later call: df still holds what the call before it returned
LaterCall == InCall /\ HasAll(df, {"stage_4", "stage4_code"})

\* the record changes only between two calls, only in G_till_max, and the
\* next call gets the same input columns
C28_Step ==
    P' # P =>
        /\ OnlyTillMaxDiffers(P, P')
        /\ pc = "summary" /\ pc' = "features"
        /\ InputOf(df') = InputOf(df)

\* the label arrays the later call has finished equal, row by row, the
\* columns the call before it returned, on the same input rows
C28_SameLabels ==
    (LaterCall /\ pc = "attach") =>
        /\ InputOf(out) = InputOf(df)
        /\ Len(stage) = Len(df) /\ Len(code) = Len(df)
        /\ \A i \in 1..Len(df) :
              /\ stage[i] = df[i].stage_4
              /\ code[i] = df[i].stage4_code

\* C28: G_till_max has no effect. For every input and every two parameter
\* records that differ only in G_till_max, the stage_4 and stage4_code the
\* classifier computes under the second record equal, row by row, those it
\* returned under the first.
C28_TillMaxUnused == []C28_SameLabels /\ [][C28_Step]_vars

\* the classifier, called again under G_till_max = 0.10, has labelled a
\* rising row with G_sm = 0.40, far above that value, Tillering
C28_Witness ==
    /\ LaterCall /\ pc = "attach"
    /\ P = [DefaultParams EXCEPT !.G_till_max = Q(10, 100)]
    /\ \E i \in 1..Len(out) :
          /\ out[i].G_sm = Q(40, 100)
          /\ out[i].sG_sm = Q(2, 100)
          /\ stage[i] = "Tillering" /\ code[i] = 2

----------------------------------------------------------------------------
(* calculate_slope works on value differences *)

\* the whole NDVI series lies on one line of gradient a
WholeSeries == 1..Len(df)

\* the window of row i holds observations of two different dates
TwoDates(i) == \E j, k \in Near(i) : df[j].date # df[k].date

ShiftsKeepSlopes ==
    \A b \in Offsets \cup {Q(-1, 2)} :
        slope_column(Shifted(df, "NDVI", b), "NDVI")
            = list([i \in 1..Len(df) |-> df[i].NDVI_slope])

FactorsScaleSlopes ==
    \A k \in Factors \cup {Q(1, 2)} :
        slope_column(Scaled(df, "NDVI", k), "NDVI")
            = TimesEach(k, list([i \in 1..Len(df) |-> df[i].NDVI_slope]))

----------------------------------------------------------------------------
(* The water override against the slope-based rules *)

Wet(r) == FGe(r.W_sm, P.W_water) /\ FLt(r.G_sm, Q(35, 100))

====
